---- MODULE Spec2Model ----
(***************************************************************************)
(* A model of solarwinds/ec2-runner-action: the action launches EC2        *)
(* instances that register as self-hosted GitHub runners, and terminates   *)
(* them.  Six machines share this module:                                  *)
(*                                                                         *)
(*   Spec       run() of main.ts: getContext, one task per unit, the        *)
(*              Promise.allSettled join and the outputs;                   *)
(*   SpecRetry  retryIfRateLimited of instance.ts (a setInterval timer     *)
(*              with attempts in flight) under launchInstance or           *)
(*              terminateInstance, and the task that awaits it;            *)
(*   SpecAmi    selectAmi of ami.ts: paging, the name filter, the sort;    *)
(*   SpecWait   waitForRunner of runner.ts: the 30 s sleep, the polling    *)
(*              timer, the getRunner calls in flight and their answers;    *)
(*              FairSpecWait is the same with the timers firing and every  *)
(*              call answered;                                             *)
(*   SpecInstance  waitForInstance of instance.ts: the waiter called again *)
(*              and again while it answers RETRY;                          *)
(*   SpecRemove removeRunner of runner.ts with the paging of getRunner,    *)
(*              while runners register and deregister; FairSpecRemove is   *)
(*              the same with every call answered.                         *)
(*                                                                         *)
(* In Spec an awaited operation settles in one step with an outcome the    *)
(* environment chooses; the other machines open such operations up.        *)
(***************************************************************************)
EXTENDS Integers, Sequences, FiniteSets, TLC

\* ------------------------------------------------------------------ bounds
\* The longest "matrix" input (lines of an identifier list, keys of a JSON object).
MaxUnits == 2

\* Identifiers a matrix may name: any strings, one reading like another's label.
MatrixIds == {"a", "b", "a-s1"}

\* The identifier of the single unit of a launch or terminate without a matrix.
NoId == ""

AllIds == MatrixIds \cup {NoId}

\* What `${ts}${rand}` of generateLabel may come out as; two units may draw the same.
Suffixes == {"s1", "s2"}

\* ------------------------------------------------------------------ state
VARIABLES
  inputAction,   \* core.getInput("action")
  rawMatrix,     \* the "matrix" input: identifiers in document order
  amiCriteria,   \* per unit: whether any of ami-name, ami-owner, ami-filters is
                 \* given (by the unit's options of a JSON matrix, else by the inputs)
  mainPc,        \* run(): "start", "awaiting" (at Promise.allSettled), "done"
  isMatrix,      \* getContext()[1]
  ctxs,          \* getContext()[2]: the units' identifiers, in order
  pc,            \* per unit: the await its task is suspended at, or how it settled
  label,         \* per unit: the label generateLabel returned
  reason,        \* per unit: the error a rejected task carries
  outputs,       \* the core.setOutput calls so far, in order: <<name, value>>
  failedMsgs,    \* the core.setFailed calls so far, in order
  errorLog,      \* the error-level log entries so far: <<prefix identifier, message>>
  history,       \* per unit, in order: <<"start", step>>, <<"ok", step>>,
                 \* <<"fail", step>>, and <<"absent", "removeRunner">> for a
                 \* lookup that found no runner
  labelArgs      \* per unit, in order: <<callee, label>> for each call of
                 \* launchInstance and waitForRunner, with the label passed

batchVars == <<inputAction, rawMatrix, amiCriteria, mainPc, isMatrix, ctxs, pc,
               label, reason, outputs, failedMsgs, errorLog, history, labelArgs>>

\* retryIfRateLimited, and the task that called it through launchInstance or
\* terminateInstance.
VARIABLES
  command,       \* what op() sends: "RunInstances" or "TerminateInstances"
  interval,      \* whether the setInterval timer is still armed
  retried,       \* let retried = 0
  attempts,      \* per call of op(), in order: "inflight", "ok", "retryable", "fatal"
  promise,       \* the promise returned: "pending", "resolved", "rejected"
  settledBy,     \* the attempt whose result or error settled the promise, else 0
  taskPc         \* the calling task: the await it is at, or how it settled

retryVars == <<command, interval, retried, attempts, promise, settledBy, taskPc>>

\* selectAmi.
VARIABLES
  amiName,       \* whether ctx.amiName (the name pattern) is set
  remaining,     \* the provider's matching images not yet returned by a page
  images,        \* let images: the images of the pages read so far
  amiPc,         \* "listing", or how the call ended: "selected", "nomatch", "error"
  selected,      \* the image returned
  amiTaskPc      \* the calling task: at "selectAmi", on to "launchInstance", "rejected"

amiVars == <<amiName, remaining, images, amiPc, selected, amiTaskPc>>

\* waitForRunner.
VARIABLES
  onlinePromise, \* "sleeping" (the 30 s before it exists), "pending", "resolved", "rejected"
  pollTimer,     \* whether the setInterval timer of the polls is armed
  waited,        \* let waited = 0
  polls,         \* how many getRunner calls the timer has started
  pollsInFlight, \* how many of them have not been answered yet
  runner,        \* the runner the promise resolved with
  waitError,     \* the error the promise rejected with: "none", "timeout", "poll error"
  seen,          \* what answered polls brought so far: "online", "error"
  clock          \* milliseconds since waitForRunner was called

waitVars == <<onlinePromise, pollTimer, waited, polls, pollsInFlight, runner, waitError,
              seen, clock>>

\* waitForInstance, and the task that called it.
VARIABLES
  instPc,        \* "waiting" (a waitUntilInstanceRunning call is out), "returned", "threw"
  waitCalls,     \* how many waitUntilInstanceRunning calls were made
  waitResults,   \* what the answered calls gave, in order: a state, or "thrown"
  instTaskPc     \* the calling task: "waitForInstance", on to "waitForRunner", "rejected"

instVars == <<instPc, waitCalls, waitResults, instTaskPc>>

\* removeRunner with the paging of getRunner, and the terminate task that called it.
VARIABLES
  registry,      \* the runners registered with the repository right now, in list order
  lastId,        \* the id of the runner registered last (ids are never reused)
  arrivals,      \* how many runners registered since getRunner was called
  page,          \* let page of getRunner's loop
  fetched,       \* let runners: the runners of the pages read so far
  reported,      \* res.data.total_count of the last page read
  removePc,      \* "listing", "deleting", or how removeRunner ended: "returned", "threw"
  foundRunner,   \* const runner: what getRunner returned
  deletes,       \* the runner_id of each deleteSelfHostedRunnerFromRepo call, in order
  removeTaskPc   \* the calling task: "removeRunner", "fulfilled", "rejected"

removeVars == <<registry, lastId, arrivals, page, fetched, reported, removePc,
                foundRunner, deletes, removeTaskPc>>

\* ------------------------------------------------------------- sequences
Range(s) == {s[i] : i \in 1..Len(s)}

SeqsUpTo(S, n) == UNION {[1..k -> S] : k \in 0..n}

\* ---------------------------------------------------------- getContext
\* Object.fromEntries(rawMatrix.map(id => [id, undefined])) followed by
\* Object.entries: a key named twice is one property, at its first place.
EntriesWithDuplicates(ids) == ids
RECURSIVE Entries(_)
Entries(ids) ==
  IF ids = <<>> THEN <<>>
  ELSE LET front == Entries(SubSeq(ids, 1, Len(ids) - 1))
           last  == ids[Len(ids)]
       IN IF last \in Range(front) THEN front ELSE Append(front, last)

\* The units of the invocation: the matrix's keys, or the one unit "".
Units(raw) == IF Len(raw) > 0 THEN Entries(raw) ELSE <<NoId>>

\* getContext throws for a launch unit with none of the three image criteria.
MissingAmiCriteriaInEveryUnit ==
  inputAction = "launch" /\ \A id \in Range(Units(rawMatrix)) : ~amiCriteria[id]
MissingAmiCriteria ==
  inputAction = "launch" /\ \E id \in Range(Units(rawMatrix)) : ~amiCriteria[id]

\* The unit at which Object.entries(matrix).map(...) throws: the first one, in
\* order, without criteria.
FirstWithoutCriteria ==
  LET units == Units(rawMatrix)
  IN units[CHOOSE i \in 1..Len(units) :
             /\ ~amiCriteria[units[i]]
             /\ \A j \in 1..(i - 1) : amiCriteria[units[j]]]

\* generateLabel: `${id}-${ts}${rand}`, without the prefix for the identifier "".
generateLabelUnprefixed(id, suffix) == suffix
generateLabel(id, suffix) == IF id # NoId THEN id \o "-" \o suffix ELSE suffix

\* loggers(id): every message of a unit carries the prefix `[${id}] `.
LogEntryUnprefixed(id, msg) == <<NoId, msg>>
LogEntry(id, msg) == <<id, msg>>

\* ------------------------------------------------------------- the tasks
Settled == {"fulfilled", "rejected"}

\* The awaits of a launch task, in the order of main.ts, and of a terminate
\* task: removeRunner awaits the lookup (getRunner) and then, a runner found,
\* the delete call.
LaunchSteps == <<"getRegistrationToken", "selectAmi", "launchInstance",
                 "waitForInstance", "waitForRunner">>
TerminateStepsRemovalFirst == <<"removeRunner", "deleteRunner", "terminateInstance">>
TerminateSteps == <<"terminateInstance", "removeRunner", "deleteRunner">>

Steps == IF inputAction = "launch" THEN LaunchSteps ELSE TerminateSteps

StepIndex(step) == CHOOSE i \in 1..Len(Steps) : Steps[i] = step

\* Where a task goes when the operation it awaits resolves.
AfterStep(step) ==
  IF StepIndex(step) = Len(Steps) THEN "fulfilled" ELSE Steps[StepIndex(step) + 1]

\* The instance the unit's own launchInstance call returned.
InstanceOf(id) == <<"i", id>>

\* A task runs on its own promise chain: it can take its next step whenever it
\* has not settled, whatever its siblings did.
TaskRunnableUntilSiblingFails(id) ==
  /\ id \in Range(ctxs) /\ pc[id] \notin Settled \cup {"none"}
  /\ \A other \in Range(ctxs) : pc[other] # "rejected"
TaskRunnable(id) == id \in Range(ctxs) /\ pc[id] \notin Settled \cup {"none"}


\* The events of a step that resolved: the next step, if any, starts at once.
Resolved(step) ==
  IF AfterStep(step) = "fulfilled" THEN << <<"ok", step>> >>
  ELSE << <<"ok", step>>, <<"start", AfterStep(step)>> >>

\* launchInstance(ctx, label, token, ami) and waitForRunner(ctx, label) are
\* called with the task's const label; no other step takes a label.
PassedLabel(id, step) ==
  IF step \in {"launchInstance", "waitForRunner"} THEN << <<step, label[id]>> >> ELSE <<>>

\* The operation a task awaits throws: the async function stops there, and the
\* task settles as rejected with [ctx, error] (the .catch of main.ts).
RejectAndGoOn(id, error) ==
  /\ pc' = [pc EXCEPT ![id] = AfterStep(pc[id])]
  /\ reason' = [reason EXCEPT ![id] = error]
  /\ history' = [history EXCEPT ![id] =
       @ \o << <<"fail", pc[id]>> >>
         \o (IF AfterStep(pc[id]) = "fulfilled" THEN <<>>
             ELSE << <<"start", AfterStep(pc[id])>> >>)]
  /\ labelArgs' = [labelArgs EXCEPT ![id] = @ \o PassedLabel(id, AfterStep(pc[id]))]
RejectAndTerminate(id, error) ==
  /\ pc' = [pc EXCEPT ![id] = "rejected"]
  /\ reason' = [reason EXCEPT ![id] = error]
  /\ history' = [history EXCEPT ![id] =
       @ \o << <<"fail", pc[id]>>, <<"start", "terminateInstance">> >>]
  /\ UNCHANGED labelArgs
Reject(id, error) ==
  /\ pc' = [pc EXCEPT ![id] = "rejected"]
  /\ reason' = [reason EXCEPT ![id] = error]
  /\ history' = [history EXCEPT ![id] = Append(@, <<"fail", pc[id]>>)]
  /\ UNCHANGED labelArgs

\* The operation a task awaits resolves: the task runs on to its next await, or
\* returns.
Resolve(id) ==
  /\ pc' = [pc EXCEPT ![id] = AfterStep(pc[id])]
  /\ history' = [history EXCEPT ![id] = @ \o Resolved(pc[id])]
  /\ labelArgs' = [labelArgs EXCEPT ![id] = @ \o PassedLabel(id, AfterStep(pc[id]))]
  /\ UNCHANGED reason

taskFrame == <<inputAction, rawMatrix, amiCriteria, mainPc, isMatrix, ctxs, label,
               outputs, failedMsgs, retryVars, amiVars, waitVars, instVars, removeVars>>

\* const token = await getRegistrationToken(ctx)
GetRegistrationToken(id) ==
  /\ TaskRunnable(id) /\ pc[id] = "getRegistrationToken"
  /\ \/ Resolve(id) /\ UNCHANGED errorLog
     \/ /\ Reject(id, "registration token request failed")
        /\ errorLog' = errorLog \cup {LogEntry(id, "Error getting registration token")}
  /\ UNCHANGED taskFrame

\* const ami = await selectAmi(ctx)
SelectAmi(id) ==
  /\ TaskRunnable(id) /\ pc[id] = "selectAmi"
  /\ \/ Resolve(id) /\ UNCHANGED errorLog
     \/ Reject(id, "No AMIs found matching filters") /\ UNCHANGED errorLog
     \/ /\ Reject(id, "DescribeImages failed")
        /\ errorLog' = errorLog \cup {LogEntry(id, "Error selecting AMI")}
  /\ UNCHANGED taskFrame

\* const instance = await launchInstance(ctx, label, token, ami)
LaunchInstance(id) ==
  /\ TaskRunnable(id) /\ pc[id] = "launchInstance"
  /\ \/ Resolve(id) /\ UNCHANGED errorLog
     \/ /\ Reject(id, "RunInstances failed")
        /\ errorLog' = errorLog \cup {LogEntry(id, "Error launching instance")}
  /\ UNCHANGED taskFrame

\* await waitForInstance(ctx, instance): SUCCESS returns, RETRY waits again, any
\* other state and a thrown error fail.
WaitForInstance(id) ==
  /\ TaskRunnable(id) /\ pc[id] = "waitForInstance"
  /\ \/ Resolve(id) /\ UNCHANGED errorLog
     \/ UNCHANGED <<pc, reason, errorLog, history, labelArgs>>
     \/ /\ \E error \in {"FAILURE", "waitUntilInstanceRunning threw"} :
             Reject(id, error)
        /\ errorLog' = errorLog \cup
             {LogEntry(id, "Error waiting for EC2 instance to be running")}
  /\ UNCHANGED taskFrame

\* const runner = await waitForRunner(ctx, label)
WaitForRunner(id) ==
  /\ TaskRunnable(id) /\ pc[id] = "waitForRunner"
  /\ \/ Resolve(id) /\ UNCHANGED errorLog
     \/ /\ Reject(id, "Timed out waiting for runner to be online")
        /\ UNCHANGED errorLog
     \/ /\ Reject(id, "listSelfHostedRunnersForRepo failed")
        /\ errorLog' = errorLog \cup
             {LogEntry(id, "Error waiting for runner to be online")}
  /\ UNCHANGED taskFrame

\* await terminateInstance(ctx)
TerminateInstance(id) ==
  /\ TaskRunnable(id) /\ pc[id] = "terminateInstance"
  /\ \/ Resolve(id) /\ UNCHANGED errorLog
     \/ /\ Reject(id, "TerminateInstances failed")
        /\ errorLog' = errorLog \cup {LogEntry(id, "Error terminating instance")}
  /\ UNCHANGED taskFrame

\* if (!runner) { ctx.warning(...); return }: where removeRunner goes after the
\* lookup.
RemoveAlwaysDeletes(found) == "deleteRunner"
RemoveAfterLookup(found) == IF found THEN "deleteRunner" ELSE "fulfilled"

\* await removeRunner(ctx), at const runner = await getRunner(ctx, ctx.label)
RemoveRunner(id) ==
  /\ TaskRunnable(id) /\ pc[id] = "removeRunner"
  /\ \/ /\ \E found \in BOOLEAN :
             /\ pc' = [pc EXCEPT ![id] = RemoveAfterLookup(found)]
             /\ history' = [history EXCEPT ![id] =
                  @ \o << <<IF found THEN "ok" ELSE "absent", "removeRunner">> >>
                    \o (IF RemoveAfterLookup(found) = "deleteRunner"
                        THEN << <<"start", "deleteRunner">> >> ELSE <<>>)]
        /\ UNCHANGED <<reason, errorLog, labelArgs>>
     \/ /\ Reject(id, "listSelfHostedRunnersForRepo failed")
        /\ errorLog' = errorLog \cup {LogEntry(id, "Error removing runner")}
  /\ UNCHANGED taskFrame

\* await removeRunner(ctx), at await ...deleteSelfHostedRunnerFromRepo(...)
DeleteRunner(id) ==
  /\ TaskRunnable(id) /\ pc[id] = "deleteRunner"
  /\ \/ Resolve(id) /\ UNCHANGED errorLog
     \/ /\ Reject(id, "deleteSelfHostedRunnerFromRepo failed")
        /\ errorLog' = errorLog \cup {LogEntry(id, "Error removing runner")}
  /\ UNCHANGED taskFrame

\* One step of the task of unit id.
TaskStep(id) ==
  \/ GetRegistrationToken(id)
  \/ SelectAmi(id)
  \/ LaunchInstance(id)
  \/ WaitForInstance(id)
  \/ WaitForRunner(id)
  \/ TerminateInstance(id)
  \/ RemoveRunner(id)
  \/ DeleteRunner(id)


\* What a task does before its first await: a launch task generates its label
\* and calls getRegistrationToken, a terminate task calls terminateInstance.
FirstEvents ==
  IF inputAction = "launch"
  THEN << <<"start", "generateLabel">>, <<"ok", "generateLabel">>, <<"start", Steps[1]>> >>
  ELSE << <<"start", Steps[1]>> >>

\* ----------------------------------------------------------------- run()
\* const [action, isMatrix, ctxs] = getContext(), then ctxs.map(...): every task
\* runs synchronously to its first await.  When getContext throws, run() rejects
\* and run().catch reports the error with setFailed.
Start ==
  /\ mainPc = "start"
  /\ IF MissingAmiCriteria
     THEN /\ mainPc' = "done"
          /\ failedMsgs' = Append(failedMsgs, "At least one of ami-name, ami-owner, ami-filters")
          /\ errorLog' = errorLog \cup
               {LogEntry(FirstWithoutCriteria,
                         "At least one of ami-name, ami-owner, ami-filters")}
          /\ UNCHANGED <<isMatrix, ctxs, pc, label, history>>
     ELSE /\ mainPc' = "awaiting"
          /\ isMatrix' = (Len(rawMatrix) > 0)
          /\ ctxs' = Units(rawMatrix)
          /\ pc' = [id \in AllIds |->
                      IF id \in Range(Units(rawMatrix)) THEN Steps[1] ELSE "none"]
          /\ IF inputAction = "launch"
             THEN \E suffix \in [Range(Units(rawMatrix)) -> Suffixes] :
                    label' = [id \in AllIds |->
                                IF id \in Range(Units(rawMatrix))
                                THEN generateLabel(id, suffix[id]) ELSE ""]
             ELSE UNCHANGED label
          /\ history' = [id \in AllIds |->
                           IF id \in Range(Units(rawMatrix)) THEN FirstEvents ELSE <<>>]
          /\ UNCHANGED <<failedMsgs, errorLog>>
  /\ UNCHANGED <<inputAction, rawMatrix, amiCriteria, reason, outputs, labelArgs,
                 retryVars, amiVars, waitVars, instVars, removeVars>>

\* result.status === "fulfilled"
FulfilledOrRejected(id) == pc[id] \in Settled
Fulfilled(id) == pc[id] = "fulfilled"

\* Promise.allSettled(tasks) resolves once every task has settled.
AllSettledFailFast ==
  \/ \A id \in Range(ctxs) : pc[id] \in Settled
  \/ \E id \in Range(ctxs) : pc[id] = "rejected"
AllSettled == \A id \in Range(ctxs) : pc[id] \in Settled

EmptyMap == [id \in {} |-> <<>>]

\* output[ctx.id] = { "instance-id": instanceId, label }
PutUnderFirstKey(map, id, value) == [k \in {ctxs[1]} |-> value]
Put(map, id, value) ==
  [k \in DOMAIN map \cup {id} |-> IF k = id THEN value ELSE map[k]]

\* The convenience outputs of one fulfilled result: set when !isMatrix.
ConvenienceOutputsForSingleUnit(id) ==
  IF Len(ctxs) = 1
  THEN << <<"instance-id", InstanceOf(id)>>, <<"label", label[id]>> >>
  ELSE <<>>
ConvenienceOutputs(id) ==
  IF ~isMatrix
  THEN << <<"instance-id", InstanceOf(id)>>, <<"label", label[id]>> >>
  ELSE <<>>

\* The loop over the results of a launch, after i results: the output object, the
\* setOutput calls, the errors logged and the failed flag.
RECURSIVE LaunchResults(_)
LaunchResults(i) ==
  IF i = 0
  THEN [output |-> EmptyMap, calls |-> <<>>, log |-> {}, failed |-> FALSE]
  ELSE LET acc == LaunchResults(i - 1)
           id  == ctxs[i]
       IN IF Fulfilled(id)
          THEN [acc EXCEPT
                  !.output = Put(acc.output, id,
                                 [instanceId |-> InstanceOf(id), label |-> label[id]]),
                  !.calls  = acc.calls \o ConvenienceOutputs(id)]
          ELSE [acc EXCEPT
                  !.log    = acc.log \cup {LogEntry(id, reason[id])},
                  !.failed = TRUE]

\* The loop over the results of a terminate.
RECURSIVE TerminateResults(_)
TerminateResults(i) ==
  IF i = 0
  THEN [log |-> {}, failed |-> FALSE]
  ELSE LET acc == TerminateResults(i - 1)
           id  == ctxs[i]
       IN IF pc[id] = "rejected"
          THEN [log |-> acc.log \cup {LogEntry(id, reason[id])}, failed |-> TRUE]
          ELSE acc

\* core.setOutput("matrix", JSON.stringify(output)), whatever failed is.
MatrixOutputUnlessFailed(acc) ==
  IF acc.failed THEN <<>> ELSE << <<"matrix", acc.output>> >>
MatrixOutput(acc) == << <<"matrix", acc.output>> >>

\* if (failed) core.setFailed(...)
SetFailedInverted(failed, msg) == IF ~failed THEN <<msg>> ELSE <<>>
SetFailed(failed, msg) == IF failed THEN <<msg>> ELSE <<>>

\* case "launch", after await Promise.allSettled(tasks)
CollectLaunch ==
  /\ mainPc = "awaiting" /\ inputAction = "launch"
  /\ AllSettled
  /\ LET acc == LaunchResults(Len(ctxs))
     IN /\ outputs' = outputs \o acc.calls \o MatrixOutput(acc)
        /\ errorLog' = errorLog \cup acc.log
        /\ failedMsgs' = failedMsgs \o
             SetFailed(acc.failed, "One or more runners failed to launch")
  /\ mainPc' = "done"
  /\ UNCHANGED <<inputAction, rawMatrix, amiCriteria, isMatrix, ctxs, pc, label, reason,
                 history, labelArgs, retryVars, amiVars, waitVars, instVars, removeVars>>

\* case "terminate", after await Promise.allSettled(tasks)
CollectTerminate ==
  /\ mainPc = "awaiting" /\ inputAction = "terminate"
  /\ AllSettled
  /\ LET acc == TerminateResults(Len(ctxs))
     IN /\ errorLog' = errorLog \cup acc.log
        /\ failedMsgs' = failedMsgs \o
             SetFailed(acc.failed, "One or more runners failed to terminate")
  /\ mainPc' = "done"
  /\ UNCHANGED <<inputAction, rawMatrix, amiCriteria, isMatrix, ctxs, pc, label, reason,
                 outputs, history, labelArgs, retryVars, amiVars, waitVars, instVars,
                 removeVars>>

\* The state in which run() is called, for given inputs.
BatchStart(action, matrix, criteria) ==
  /\ inputAction = action
  /\ rawMatrix = matrix
  /\ amiCriteria = criteria
  /\ mainPc = "start"
  /\ isMatrix = FALSE
  /\ ctxs = <<>>
  /\ pc = [id \in AllIds |-> "none"]
  /\ label = [id \in AllIds |-> ""]
  /\ history = [id \in AllIds |-> <<>>]
  /\ labelArgs = [id \in AllIds |-> <<>>]
  /\ reason = [id \in AllIds |-> "none"]
  /\ outputs = <<>>
  /\ failedMsgs = <<>>
  /\ errorLog = {}

BatchInit ==
  \E action \in {"launch", "terminate"}, matrix \in SeqsUpTo(MatrixIds, MaxUnits) :
    \E without \in SUBSET Range(Units(matrix)) :
      BatchStart(action, matrix, [id \in AllIds |-> id \notin without])

\* ------------------------------------------------- retryIfRateLimited
\* const retries = options?.retries ?? 6
retries == 6

\* How many calls of op() a run of the model starts at most.
MaxAttempts == 7

\* How many calls of op() may be unanswered at once: the provider may take longer
\* than the timer's period to answer.
MaxInFlight == 2

InFlight == {n \in 1..Len(attempts) : attempts[n] = "inflight"}

\* The awaits of the calling task after launchInstance or terminateInstance.
TaskAfter(cmd) ==
  IF cmd = "RunInstances" THEN <<"waitForInstance", "waitForRunner">>
  ELSE <<"removeRunner">>

\* The state right after retryIfRateLimited returned its promise: the timer is
\* armed, nothing was sent yet, the caller awaits.
RetryStart(cmd) ==
  /\ command = cmd
  /\ interval = TRUE
  /\ retried = 0
  /\ attempts = <<>>
  /\ promise = "pending"
  /\ settledBy = 0
  /\ taskPc = "retryIfRateLimited"

RetryInit == \E cmd \in {"RunInstances", "TerminateInstances"} : RetryStart(cmd)

\* The timer fires: op() is called, whatever became of the earlier calls.
Tick ==
  /\ interval
  /\ Len(attempts) < MaxAttempts
  /\ Cardinality(InFlight) < MaxInFlight
  /\ attempts' = Append(attempts, "inflight")
  /\ UNCHANGED <<command, interval, retried, promise, settledBy, taskPc, batchVars, amiVars,
                 waitVars, instVars, removeVars>>

\* .then((r) => res(r)): the first settlement of the promise counts; the caller
\* returns from launchInstance or terminateInstance and goes on to its next await.
OpResolves(n) ==
  /\ n \in InFlight
  /\ attempts' = [attempts EXCEPT ![n] = "ok"]
  /\ IF promise = "pending"
     THEN /\ promise' = "resolved"
          /\ settledBy' = n
          /\ taskPc' = TaskAfter(command)[1]
     ELSE UNCHANGED <<promise, settledBy, taskPc>>
  /\ UNCHANGED <<command, interval, retried, batchVars, amiVars, waitVars, instVars, removeVars>>

\* retried >= retries || !(err instanceof EC2ServiceException && err.$retryable)
GivesUpOnlyWhenExhausted(count, error) == count >= retries
GivesUp(count, error) == count >= retries \/ error # "retryable"

\* .catch((err) => ...): count the failure; give up, clearing the timer and
\* rejecting, or log "Rate limited" and leave the timer running.  The caller's
\* catch logs and rethrows, which rejects the task.
OpRejects(n) ==
  /\ n \in InFlight
  /\ \E error \in {"retryable", "fatal"} :
       /\ attempts' = [attempts EXCEPT ![n] = error]
       /\ retried' = retried + 1
       /\ IF GivesUp(retried + 1, error)
          THEN /\ interval' = FALSE
               /\ IF promise = "pending"
                  THEN /\ promise' = "rejected"
                       /\ settledBy' = n
                       /\ taskPc' = "rejected"
                  ELSE UNCHANGED <<promise, settledBy, taskPc>>
          ELSE UNCHANGED <<interval, promise, settledBy, taskPc>>
  /\ UNCHANGED <<command, batchVars, amiVars, waitVars, instVars, removeVars>>

\* The calling task goes on after launchInstance (waitForInstance, then
\* waitForRunner) or terminateInstance (removeRunner): each await resolves or
\* throws.  Nothing here touches the timer.
TaskGoesOn ==
  /\ taskPc \in Range(TaskAfter(command))
  /\ \/ taskPc' = IF taskPc = "waitForInstance" THEN "waitForRunner" ELSE "fulfilled"
     \/ taskPc' = "rejected"
  /\ UNCHANGED <<command, interval, retried, attempts, promise, settledBy, batchVars,
                 amiVars, waitVars, instVars, removeVars>>

RetryNext ==
  \/ Tick
  \/ \E n \in 1..MaxAttempts : OpResolves(n)
  \/ \E n \in 1..MaxAttempts : OpRejects(n)
  \/ TaskGoesOn

\* ----------------------------------------------------------- selectAmi
\* How many images the provider holds that pass the provider-side filters.
MaxImages == 3

\* CreationDate values, in seconds since the epoch; NoDate is a missing one
\* (CreationDate is optional in Image).
NoDate == -1
Dates == {59, 60, 119}

\* Name values: missing, matching ctx.amiName, not matching it.
Names == {"undefined", "actions-runner-1", "other"}

\* The image at place k of the provider's list.
Image(k, name, date) == [ImageId |-> k, Name |-> name, CreationDate |-> date]

\* No image: the value of selected while none was returned.
NoImage == Image(0, "undefined", NoDate)

\* The lists of n images the provider may hold.
ImageLists(n) ==
  {[k \in 1..n |-> Image(k, f[k][1], f[k][2])] :
     f \in [1..n -> Names \X (Dates \cup {NoDate})]}

\* ctx.amiName.test(i.Name)
Test(name) == name = "actions-runner-1"

\* images.filter((i) => i.Name && ctx.amiName?.test(i.Name)), when ctx.amiName
Filter(list) ==
  IF amiName
  THEN SelectSeq(list, LAMBDA i : i.Name # "undefined" /\ Test(i.Name))
  ELSE list

\* new Date(x.CreationDate ?? 0), in seconds since the epoch
DateOf(image) == IF image.CreationDate = NoDate THEN 0 ELSE image.CreationDate

\* Date.prototype.getUTCSeconds(): the seconds within the minute
getUTCSeconds(date) == date % 60

\* (a, b) => new Date(b.CreationDate ?? 0).getUTCSeconds() -
\*           new Date(a.CreationDate ?? 0).getUTCSeconds()
Compare(a, b) == getUTCSeconds(DateOf(b)) - getUTCSeconds(DateOf(a))

\* Array.prototype.sort is stable: x goes behind every element it does not
\* have to precede.
RECURSIVE Insert(_, _)
Insert(sorted, x) ==
  IF sorted = <<>> THEN <<x>>
  ELSE IF Compare(sorted[Len(sorted)], x) <= 0 THEN Append(sorted, x)
  ELSE Append(Insert(SubSeq(sorted, 1, Len(sorted) - 1), x), sorted[Len(sorted)])

RECURSIVE Sort(_)
Sort(list) ==
  IF list = <<>> THEN <<>>
  ELSE Insert(Sort(SubSeq(list, 1, Len(list) - 1)), list[Len(list)])

\* images.length === 0, after the filter
IsEmptyOrSingle(list) == Len(list) <= 1
IsEmpty(list) == list = <<>>

\* The state in which selectAmi is called.
AmiStart(pattern, list) ==
  /\ amiName = pattern
  /\ remaining = list
  /\ images = <<>>
  /\ amiPc = "listing"
  /\ selected = NoImage
  /\ amiTaskPc = "selectAmi"

AmiInit ==
  \E pattern \in BOOLEAN, n \in 0..MaxImages :
    \E list \in ImageLists(n) : AmiStart(pattern, list)

\* One turn of the do-while: a page of k images arrives, with a NextToken while
\* the provider has more.  After the last page the filter, the emptiness test
\* and the sort run without another await.  The calling task of main.ts calls
\* launchInstance with the image returned; a throw rejects it.
DescribeImages(k) ==
  /\ amiPc = "listing"
  /\ k \in 0..Len(remaining)
  /\ LET all  == images \o SubSeq(remaining, 1, k)
         rest == SubSeq(remaining, k + 1, Len(remaining))
         kept == Filter(all)
     IN /\ images' = all
        /\ remaining' = rest
        /\ IF rest # <<>>
           THEN UNCHANGED <<amiPc, selected, amiTaskPc>>
           ELSE IF IsEmpty(kept)
                THEN /\ amiPc' = "nomatch"
                     /\ amiTaskPc' = "rejected"
                     /\ UNCHANGED selected
                ELSE /\ amiPc' = "selected"
                     /\ selected' = Sort(kept)[1]
                     /\ amiTaskPc' = "launchInstance"
  /\ UNCHANGED <<amiName, batchVars, retryVars, waitVars, instVars, removeVars>>

\* ctx.ec2.send(new DescribeImagesCommand(input)) throws: logged and rethrown.
DescribeImagesFails ==
  /\ amiPc = "listing"
  /\ amiPc' = "error"
  /\ amiTaskPc' = "rejected"
  /\ UNCHANGED <<amiName, remaining, images, selected, batchVars, retryVars, waitVars,
                 instVars, removeVars>>

AmiNext ==
  \/ \E k \in 0..MaxImages : DescribeImages(k)
  \/ DescribeImagesFails

\* ------------------------------------------------------- waitForRunner
\* const TIMEOUT, INTERVAL, WAIT, in milliseconds
TIMEOUT == 10 * 60 * 1000
INTERVAL == 10 * 1000
WAIT == 30 * 1000

\* How many getRunner calls a run of the model starts at most, and how many may
\* be unanswered at once (a call may take longer than INTERVAL to answer).
MaxPolls == 62
MaxPollsInFlight == 2

\* How many runners the repository lists at most.
MaxRunners == 2

\* The label waitForRunner is called with, and the label of some other runner.
TargetLabel == "a-s1"
OtherLabel == "b-s2"

\* A runner of the repository; every self-hosted runner has the default label.
Runner(id, status, labelName) ==
  [id |-> id, status |-> status, labels |-> {"self-hosted", labelName}]

\* undefined: what getRunner returns when no runner has the label.
NoRunner == [id |-> 0, status |-> "undefined", labels |-> {}]

\* What listSelfHostedRunnersForRepo may list, all pages together.
RunnerLists ==
  UNION {{[k \in 1..n |-> Runner(k, f[k][1], f[k][2])] :
            f \in [1..n -> {"online", "offline"} \X {TargetLabel, OtherLabel}]} :
         n \in 0..MaxRunners}

\* runners.find((r) => r.labels.some((l) => l.name === label))
FindFirst(list, labelName) == IF list # <<>> THEN list[1] ELSE NoRunner
Find(list, labelName) ==
  IF \E k \in 1..Len(list) : labelName \in list[k].labels
  THEN list[CHOOSE k \in 1..Len(list) :
              /\ labelName \in list[k].labels
              /\ \A j \in 1..(k - 1) : labelName \notin list[j].labels]
  ELSE NoRunner

\* What a getRunner call that returns may return.
PollResults == {Find(list, TargetLabel) : list \in RunnerLists}

\* r && r.status === "online"
IsPresent(r) == r # NoRunner
IsOnline(r) == r # NoRunner /\ r.status = "online"

\* waited > TIMEOUT
BudgetReached(w) == w >= TIMEOUT
NeverTimedOut(w) == FALSE
TimedOut(w) == w > TIMEOUT

\* The state in which waitForRunner is called: it sleeps WAIT first.
WaitStart ==
  /\ onlinePromise = "sleeping"
  /\ pollTimer = FALSE
  /\ waited = 0
  /\ polls = 0
  /\ pollsInFlight = 0
  /\ runner = NoRunner
  /\ waitError = "none"
  /\ seen = {}
  /\ clock = 0

\* await new Promise((res) => setTimeout(res, WAIT)), then let waited = 0 and
\* the promise with its setInterval timer.
GraceOver ==
  /\ onlinePromise = "sleeping"
  /\ onlinePromise' = "pending"
  /\ pollTimer' = TRUE
  /\ clock' = clock + WAIT
  /\ UNCHANGED <<waited, polls, pollsInFlight, runner, waitError, seen, batchVars,
                 retryVars, amiVars, instVars, removeVars>>

\* The timer fires, INTERVAL after it was armed or last fired: getRunner is
\* called, whatever became of the earlier calls.
PollTick ==
  /\ pollTimer
  /\ polls < MaxPolls
  /\ pollsInFlight < MaxPollsInFlight
  /\ polls' = polls + 1
  /\ pollsInFlight' = pollsInFlight + 1
  /\ clock' = clock + INTERVAL
  /\ UNCHANGED <<onlinePromise, pollTimer, waited, runner, waitError, seen, batchVars,
                 retryVars, amiVars, instVars, removeVars>>

\* .then((r) => ...): an online runner clears the timer and resolves; anything
\* else adds INTERVAL to waited and, waited past TIMEOUT, clears the timer and
\* rejects.  A promise that has settled stays as it is.
PollReturns(r) ==
  /\ pollsInFlight > 0
  /\ r \in PollResults
  /\ pollsInFlight' = pollsInFlight - 1
  /\ IF IsOnline(r)
     THEN /\ pollTimer' = FALSE
          /\ seen' = seen \cup {"online"}
          /\ IF onlinePromise = "pending"
             THEN onlinePromise' = "resolved" /\ runner' = r
             ELSE UNCHANGED <<onlinePromise, runner>>
          /\ UNCHANGED <<waited, waitError>>
     ELSE /\ waited' = waited + INTERVAL
          /\ IF TimedOut(waited + INTERVAL)
             THEN /\ pollTimer' = FALSE
                  /\ IF onlinePromise = "pending"
                     THEN onlinePromise' = "rejected" /\ waitError' = "timeout"
                     ELSE UNCHANGED <<onlinePromise, waitError>>
             ELSE UNCHANGED <<pollTimer, onlinePromise, waitError>>
          /\ UNCHANGED <<runner, seen>>
  /\ UNCHANGED <<polls, clock, batchVars, retryVars, amiVars, instVars, removeVars>>

\* .catch((err) => ...): logs and rejects; the timer is left as it is.
PollFails ==
  /\ pollsInFlight > 0
  /\ pollsInFlight' = pollsInFlight - 1
  /\ seen' = seen \cup {"error"}
  /\ IF onlinePromise = "pending"
     THEN onlinePromise' = "rejected" /\ waitError' = "poll error"
     ELSE UNCHANGED <<onlinePromise, waitError>>
  /\ UNCHANGED <<pollTimer, waited, polls, runner, clock, batchVars, retryVars, amiVars,
                 instVars, removeVars>>

WaitNext ==
  \/ GraceOver
  \/ PollTick
  \/ \E r \in PollResults : PollReturns(r)
  \/ PollFails

\* ------------------------------------- waitForInstance (instance.ts)
\* How many waitUntilInstanceRunning calls a run of the model makes at most.
MaxWaitCalls == 30

\* WaiterState of the AWS SDK: what a waitUntilInstanceRunning call may report.
WaiterStates == {"SUCCESS", "RETRY", "FAILURE", "TIMEOUT", "ABORTED"}

\* case "RETRY": continue
ContinueUnlessSuccess(state) == state # "SUCCESS"
Continue(state) == state = "RETRY"

\* The state in which the launch task calls waitForInstance: the body of the
\* for (;;) runs to its first await.
InstStart ==
  /\ instPc = "waiting"
  /\ waitCalls = 1
  /\ waitResults = <<>>
  /\ instTaskPc = "waitForInstance"

\* The call out is answered with result.state: SUCCESS returns, and the task
\* goes on to waitForRunner; RETRY calls again; any other state throws, the
\* catch logs and rethrows, and the task is rejected.
WaiterReturns(state) ==
  /\ instPc = "waiting"
  /\ waitResults' = Append(waitResults, state)
  /\ IF state = "SUCCESS"
     THEN /\ instPc' = "returned"
          /\ instTaskPc' = "waitForRunner"
          /\ UNCHANGED waitCalls
     ELSE IF Continue(state)
     THEN /\ waitCalls < MaxWaitCalls
          /\ waitCalls' = waitCalls + 1
          /\ UNCHANGED <<instPc, instTaskPc>>
     ELSE /\ instPc' = "threw"
          /\ instTaskPc' = "rejected"
          /\ UNCHANGED waitCalls
  /\ UNCHANGED <<batchVars, retryVars, amiVars, waitVars, removeVars>>

\* The call out throws: the catch logs and rethrows, and the task is rejected.
WaiterThrows ==
  /\ instPc = "waiting"
  /\ waitResults' = Append(waitResults, "thrown")
  /\ instPc' = "threw"
  /\ instTaskPc' = "rejected"
  /\ UNCHANGED <<waitCalls, batchVars, retryVars, amiVars, waitVars, removeVars>>

InstNext ==
  \/ \E state \in WaiterStates : WaiterReturns(state)
  \/ WaiterThrows

\* ------------------------------ getRunner and removeRunner (runner.ts)
\* How many runners are registered with the repository at once, at most, and
\* how many register while the pages are read.
MaxListed == 3
MaxArrivals == 2

\* per_page, scaled down from 100: how many runners one page holds at most.
PageSize == 2

\* The first page number past every page that can hold a runner: this page and
\* all later ones are empty.  The model folds the page numbers from here on
\* onto PastEnd and PastEnd + 1, in turn, so that every list call is a step.
PastEnd == MaxListed \div PageSize + 2

\* page++
NextPage(p) == IF p <= PastEnd THEN p + 1 ELSE PastEnd

\* No page has been read yet.
NoTotal == -1

\* The runners of the given labels, registered in this order.
Registered(labelNames) ==
  [k \in 1..Len(labelNames) |-> Runner(k, "offline", labelNames[k])]

\* res.data.runners of page p of the list.
PageOf(list, p) ==
  [k \in 1..(IF Len(list) > (p - 1) * PageSize
             THEN (IF Len(list) < p * PageSize THEN Len(list) ELSE p * PageSize)
                    - (p - 1) * PageSize
             ELSE 0) |-> list[(p - 1) * PageSize + k]]

\* runners.length === res.data.total_count
ListedAll(n, total) == n = total

\* runner_id: runner.id
FirstId(r) == 1
RunnerId(r) == r.id

\* The list without its k-th element.
Without(list, k) ==
  [j \in 1..(Len(list) - 1) |-> IF j < k THEN list[j] ELSE list[j + 1]]

\* The state in which the terminate task calls removeRunner, which calls
\* getRunner with ctx.label.
RemoveStart(list) ==
  /\ registry = list
  /\ lastId = Len(list)
  /\ arrivals = 0
  /\ page = 1
  /\ fetched = <<>>
  /\ reported = NoTotal
  /\ removePc = "listing"
  /\ foundRunner = NoRunner
  /\ deletes = <<>>
  /\ removeTaskPc = "removeRunner"

RemoveInit ==
  \E n \in 0..MaxListed : \E labelNames \in [1..n -> {TargetLabel, OtherLabel}] :
    RemoveStart(Registered(labelNames))

removeFrame == <<batchVars, retryVars, amiVars, waitVars, instVars>>

\* Some other job's runner registers while the pages are read.
Register(labelName) ==
  /\ removePc = "listing"
  /\ Len(registry) < MaxListed
  /\ arrivals < MaxArrivals
  /\ arrivals' = arrivals + 1
  /\ lastId' = lastId + 1
  /\ registry' = Append(registry, Runner(lastId + 1, "offline", labelName))
  /\ UNCHANGED <<page, fetched, reported, removePc, foundRunner, deletes, removeTaskPc>>
  /\ UNCHANGED removeFrame

\* A runner goes away while the pages are read: the later ones move up.
Deregister(k) ==
  /\ removePc = "listing"
  /\ k \in 1..Len(registry)
  /\ registry' = Without(registry, k)
  /\ UNCHANGED <<lastId, arrivals, page, fetched, reported, removePc, foundRunner, deletes, removeTaskPc>>
  /\ UNCHANGED removeFrame

\* listSelfHostedRunnersForRepo answers: the page is added to runners; with as
\* many runners as total_count, getRunner returns what find gives, and
\* removeRunner either returns (no runner: warning) or calls
\* deleteSelfHostedRunnerFromRepo; otherwise the next page is asked for.
ListReturns ==
  /\ removePc = "listing"
  /\ LET runners == fetched \o PageOf(registry, page)
         total == Len(registry)
     IN /\ fetched' = runners
        /\ reported' = total
        /\ IF ListedAll(Len(runners), total)
           THEN /\ foundRunner' = Find(runners, TargetLabel)
                /\ IF foundRunner' = NoRunner
                   THEN /\ removePc' = "returned"
                        /\ removeTaskPc' = "fulfilled"
                        /\ UNCHANGED deletes
                   ELSE /\ removePc' = "deleting"
                        /\ deletes' = Append(deletes, RunnerId(foundRunner'))
                        /\ UNCHANGED removeTaskPc
                /\ UNCHANGED page
           ELSE /\ page' = NextPage(page)
                /\ UNCHANGED <<removePc, foundRunner, deletes, removeTaskPc>>
  /\ UNCHANGED <<registry, lastId, arrivals>>
  /\ UNCHANGED removeFrame

\* listSelfHostedRunnersForRepo throws: getRunner throws, the catch of
\* removeRunner logs and rethrows, and the task is rejected.
ListFails ==
  /\ removePc = "listing"
  /\ removePc' = "threw"
  /\ removeTaskPc' = "rejected"
  /\ UNCHANGED <<registry, lastId, arrivals, page, fetched, reported, foundRunner, deletes>>
  /\ UNCHANGED removeFrame

\* deleteSelfHostedRunnerFromRepo answers: removeRunner returns and the task
\* is fulfilled.
DeleteReturns ==
  /\ removePc = "deleting"
  /\ removePc' = "returned"
  /\ removeTaskPc' = "fulfilled"
  /\ UNCHANGED <<registry, lastId, arrivals, page, fetched, reported, foundRunner, deletes>>
  /\ UNCHANGED removeFrame

\* deleteSelfHostedRunnerFromRepo throws: the catch logs and rethrows.
DeleteFails ==
  /\ removePc = "deleting"
  /\ removePc' = "threw"
  /\ removeTaskPc' = "rejected"
  /\ UNCHANGED <<registry, lastId, arrivals, page, fetched, reported, foundRunner, deletes>>
  /\ UNCHANGED removeFrame

\* What the environment of getRunner does, and what the program does.
RegistryChanges ==
  \/ \E labelName \in {TargetLabel, OtherLabel} : Register(labelName)
  \/ \E k \in 1..MaxListed : Deregister(k)

RemoveAnswers ==
  \/ ListReturns
  \/ ListFails
  \/ DeleteReturns
  \/ DeleteFails

RemoveNext ==
  \/ RegistryChanges
  \/ RemoveAnswers

\* --------------------------------------------------------- specifications
vars == <<batchVars, retryVars, amiVars, waitVars, instVars, removeVars>>

\* A machine that a specification does not run rests in its first state.
RetryIdle == RetryStart("RunInstances")
BatchIdle == BatchStart("launch", <<>>, [id \in AllIds |-> TRUE])
AmiIdle == AmiStart(FALSE, <<>>)
WaitIdle == WaitStart
InstIdle == InstStart
RemoveIdle == RemoveStart(<<>>)

Init == BatchInit /\ RetryIdle /\ AmiIdle /\ WaitIdle /\ InstIdle /\ RemoveIdle

Next ==
  \/ Start
  \/ \E id \in AllIds : TaskStep(id)
  \/ CollectLaunch
  \/ CollectTerminate

Spec == Init /\ [][Next]_vars

InitRetry == RetryInit /\ BatchIdle /\ AmiIdle /\ WaitIdle /\ InstIdle /\ RemoveIdle

SpecRetry == InitRetry /\ [][RetryNext]_vars

InitAmi == AmiInit /\ BatchIdle /\ RetryIdle /\ WaitIdle /\ InstIdle /\ RemoveIdle

SpecAmi == InitAmi /\ [][AmiNext]_vars

InitWait == WaitStart /\ BatchIdle /\ RetryIdle /\ AmiIdle /\ InstIdle /\ RemoveIdle

SpecWait == InitWait /\ [][WaitNext]_vars

\* The setTimeout of the sleep fires, the setInterval timer fires while it is
\* armed, and every getRunner call returns or fails.
FairSpecWait ==
  /\ SpecWait
  /\ WF_vars(GraceOver)
  /\ WF_vars(PollTick)
  /\ WF_vars((\E r \in PollResults : PollReturns(r)) \/ PollFails)

InitInstance == InstStart /\ BatchIdle /\ RetryIdle /\ AmiIdle /\ WaitIdle /\ RemoveIdle

SpecInstance == InitInstance /\ [][InstNext]_vars

InitRemove == RemoveInit /\ BatchIdle /\ RetryIdle /\ AmiIdle /\ WaitIdle /\ InstIdle

SpecRemove == InitRemove /\ [][RemoveNext]_vars

\* Every list call returns a page, and every delete call is answered.
FairSpecRemove ==
  SpecRemove /\ WF_vars(ListReturns) /\ WF_vars(DeleteReturns \/ DeleteFails)

\* ================================================================= claims
\* The units of the batch by how their task settled.
Succeeded == {id \in Range(ctxs) : pc[id] = "fulfilled"}
Failed == {id \in Range(ctxs) : pc[id] = "rejected"}
Pending == {id \in Range(ctxs) : pc[id] \notin Settled}

\* The values of the setOutput("matrix", ...) calls made so far.
MatrixValues == {outputs[i][2] : i \in {j \in 1..Len(outputs) : outputs[j][1] = "matrix"}}

\* getContext returned and the launch batch has been collected.
LaunchCollected == mainPc = "done" /\ inputAction = "launch" /\ ctxs # <<>>

\* C1: the key set of the emitted result map is exactly the set of units whose
\* launch pipeline succeeded, for every batch and every order of settling: a
\* collected launch batch has emitted a map, and every emitted map has exactly
\* the succeeded units as keys.
C1_MatrixKeysAreSucceeded ==
  /\ LaunchCollected => MatrixValues # {}
  /\ \A map \in MatrixValues : DOMAIN map = Succeeded

C1_Witness ==
  /\ LaunchCollected
  /\ Cardinality(Succeeded) = 1 /\ Cardinality(Failed) = 1
  /\ \E map \in MatrixValues : DOMAIN map = Succeeded

\* C2: settle-all join: no output, no failed signal and no completion of the
\* batch while a unit is still pending, also when a sibling failed early.
C2_NoAggregateWhilePending ==
  (outputs # <<>> \/ failedMsgs # <<>> \/ mainPc = "done") => Pending = {}

C2_Witness ==
  /\ mainPc = "done" /\ inputAction = "launch"
  /\ \E early \in Failed, slow \in Succeeded :
       reason[early] = "registration token request failed"
  /\ failedMsgs # <<>> /\ outputs # <<>>

\* C3: a failure is unit-scoped: once some unit has failed, every pending
\* sibling can still resolve the step it is at and can still fail on its own;
\* as this holds in every reachable state, it holds for every remaining step.
C3_SiblingsKeepRunning ==
  \A id \in Pending :
    Failed # {} =>
      /\ ENABLED (TaskStep(id) /\ pc'[id] = AfterStep(pc[id]))
      /\ ENABLED (TaskStep(id) /\ pc'[id] = "rejected")

C3_Witness ==
  \E id \in Succeeded, other \in Failed :
    /\ inputAction = "launch"
    /\ reason[other] = "registration token request failed"

\* C4: the batch is reported failed if and only if at least one unit failed,
\* for launch and terminate; nothing is reported before the batch is collected.
C4_FailedIffUnitFailed ==
  ctxs # <<>> =>
    IF mainPc = "done" THEN (failedMsgs # <<>>) <=> (Failed # {})
    ELSE failedMsgs = <<>>

C4_Witness ==
  /\ mainPc = "done" /\ inputAction = "terminate"
  /\ Succeeded # {} /\ Failed # {}
  /\ failedMsgs = <<"One or more runners failed to terminate">>

\* C5: a launch batch whose configuration was accepted emits the result map
\* exactly once, after all units settled, failed units or not; the map of a
\* batch reported failed still holds every succeeded unit's entry.
C5_MatrixEmittedOnce ==
  /\ Cardinality({i \in 1..Len(outputs) : outputs[i][1] = "matrix"})
       = IF LaunchCollected THEN 1 ELSE 0
  /\ \A map \in MatrixValues :
       /\ Pending = {}
       /\ \A id \in Succeeded :
            /\ id \in DOMAIN map
            /\ map[id] = [instanceId |-> InstanceOf(id), label |-> label[id]]

C5_Witness ==
  /\ LaunchCollected
  /\ failedMsgs = <<"One or more runners failed to launch">>
  /\ \E map \in MatrixValues : \E id \in Succeeded : id \in DOMAIN map


\* What the provider has received: one request per call of op().
Requests == Len(attempts)

\* C6: launch submits exactly one instance request: once the one RunInstances
\* request of a unit has been accepted (no attempt was rejected), the provider
\* receives no further RunInstances request for the rest of the run, the waits
\* for the instance and for the runner included.
C6_OneCreateRequest ==
  [][(/\ command = "RunInstances"
      /\ promise = "resolved" /\ retried = 0 /\ Requests = 1)
       => Requests' = 1]_vars

\* C7: terminate submits exactly one destroy request when that request is
\* accepted, and the unit goes on to the runner's removal as soon as it is
\* accepted, with no wait for the terminated state.
C7_OneDestroyRequest ==
  [][/\ (/\ command = "TerminateInstances"
         /\ promise = "resolved" /\ retried = 0 /\ Requests = 1)
          => Requests' = 1
     /\ (/\ command = "TerminateInstances"
         /\ promise = "pending" /\ promise' = "resolved")
          => taskPc' = "removeRunner"]_vars

\* Every call of op() so far has been answered, each with a retryable error.
AllFailedRetryably ==
  Requests > 0 /\ \A n \in 1..Requests : attempts[n] = "retryable"

\* C8: a call that fails retryably on attempts 1 to 5 and succeeds on attempt 6
\* makes the wrapper succeed with that result; a call that fails retryably on
\* every attempt makes the wrapper fail after exactly 6 attempts, and a 7th
\* attempt is never started.
C8_SixAttemptsNotSeven ==
  /\ (/\ Requests >= retries
      /\ \A n \in 1..(retries - 1) : attempts[n] = "retryable"
      /\ attempts[retries] = "ok"
      /\ \A n \in (retries + 1)..Requests : attempts[n] = "inflight")
       => promise = "resolved" /\ settledBy = retries
  /\ AllFailedRetryably => Requests <= retries
  /\ (AllFailedRetryably /\ promise = "rejected") => Requests = retries

Survivors == Range(Filter(images))

\* C10: selectImage returns, among the images that survive the filters, one
\* whose creation timestamp is the greatest, a missing timestamp counting as
\* epoch zero.
C10_MostRecentImage ==
  amiPc = "selected" =>
    /\ selected \in Survivors
    /\ \A i \in Survivors : DateOf(i) <= DateOf(selected)

\* C11: selectImage fails with the no-match error exactly when, all pages
\* listed, no image is left after the name-pattern filter; the unit then is
\* rejected and never calls launchInstance, so it submits no instance request.
C11_NoMatchIffNoSurvivor ==
  /\ amiPc = "nomatch" <=>
       (remaining = <<>> /\ amiPc \notin {"listing", "error"} /\ Survivors = {})
  /\ amiPc = "nomatch" => (amiTaskPc = "rejected" /\ selected = NoImage)
  /\ amiTaskPc = "launchInstance" => (amiPc = "selected" /\ Survivors # {})

C11_Witness ==
  /\ amiPc = "nomatch" /\ amiName
  /\ Len(images) = 2 /\ Survivors = {}
  /\ amiTaskPc = "rejected"

\* The polls answered so far without an online runner: each added INTERVAL.
Unsuccessful == waited \div INTERVAL

\* C12: awaitOnline fails with the timeout error only once the intervals of
\* unsuccessful polls add up to more than 10 minutes, so not before the 61st
\* unsuccessful poll, and does fail so at that poll when no poll found an
\* online runner and none failed; the 30 s of grace are outside that budget.
C12_TimeoutAfter61Polls ==
  /\ waited = Unsuccessful * INTERVAL
  /\ onlinePromise # "sleeping" => clock = WAIT + polls * INTERVAL
  /\ (onlinePromise = "rejected" /\ waitError = "timeout") =>
       /\ waited > 10 * 60 * 1000
       /\ Unsuccessful >= 61
       /\ clock >= 30 * 1000 + 61 * 10 * 1000
  /\ (Unsuccessful >= 61 /\ seen = {}) =>
       (onlinePromise = "rejected" /\ waitError = "timeout")
  /\ (Unsuccessful < 61 /\ seen = {}) => onlinePromise \in {"sleeping", "pending"}

C12_Witness ==
  /\ onlinePromise = "rejected" /\ waitError = "timeout"
  /\ Unsuccessful = 61 /\ polls = 61 /\ seen = {}
  /\ clock = 640000

\* C13: awaitOnline succeeds at the first poll, made after the grace, that
\* finds a runner with the target label and status online; the runner it
\* returns has that label and is online; a poll that finds no runner or one
\* with another status never makes it succeed.
C13_OnlineAtFirstMatch ==
  /\ [](/\ onlinePromise = "resolved" =>
             /\ runner # NoRunner
             /\ TargetLabel \in runner.labels
             /\ runner.status = "online"
             /\ "online" \in seen
             /\ polls >= 1 /\ clock >= WAIT + INTERVAL
        /\ "online" \in seen => onlinePromise \in {"resolved", "rejected"})
  /\ [][/\ (onlinePromise = "pending" /\ "online" \notin seen /\ "online" \in seen')
             => (onlinePromise' = "resolved" /\ ~pollTimer')
        /\ (onlinePromise = "pending" /\ onlinePromise' = "resolved")
             => ("online" \notin seen /\ "online" \in seen')]_vars

C13_Witness ==
  /\ onlinePromise = "resolved"
  /\ runner = Runner(2, "online", TargetLabel)
  /\ Unsuccessful = 2 /\ polls = 3 /\ seen = {"online"}

\* C14: when a poll itself fails, awaitOnline fails with that error at once,
\* and the poll loop is cancelled: after the failing poll no further getRunner
\* call is started.
C14_PollErrorCancelsLoop ==
  [][/\ (onlinePromise = "pending" /\ "error" \in seen')
          => (onlinePromise' = "rejected" /\ waitError' = "poll error")
     /\ waitError = "poll error" => polls' = polls]_vars

\* The events of unit id so far, as a set.
Events(id) == Range(history[id])

\* C15: removeWorker on a label for which the lookup finds no runner returns
\* without an error and without a delete call, so a terminate unit whose
\* destroy call succeeded and whose runner is absent settles as succeeded,
\* and a batch of such units is not reported failed.
C15_AbsentRunnerIsSuccess ==
  /\ \A id \in Range(ctxs) :
       <<"absent", "removeRunner">> \in Events(id) =>
         /\ pc[id] = "fulfilled" /\ reason[id] = "none"
         /\ <<"ok", "terminateInstance">> \in Events(id)
         /\ \A e \in Events(id) : e[2] # "deleteRunner"
         /\ \A e \in errorLog : e[1] # id
  /\ (/\ mainPc = "done" /\ ctxs # <<>>
      /\ \A id \in Range(ctxs) : <<"absent", "removeRunner">> \in Events(id))
       => failedMsgs = <<>>

C15_Witness ==
  /\ mainPc = "done" /\ inputAction = "terminate" /\ Len(ctxs) = 2
  /\ \A id \in Range(ctxs) :
       history[id] = << <<"start", "terminateInstance">>, <<"ok", "terminateInstance">>,
                        <<"start", "removeRunner">>, <<"absent", "removeRunner">> >>
  /\ failedMsgs = <<>>

\* C16: within one launch unit the steps start in the order generate label,
\* registration token, select image, launch instance, await running, await
\* online; a step starts only right after the step before it succeeded; a
\* failure is the unit's last event, so no later step starts, and no instance
\* is requested after the token fetch or the image selection failed.
C16_LaunchStepsInOrder ==
  inputAction = "launch" =>
    \A id \in Range(ctxs) :
      LET h      == history[id]
          order  == <<"generateLabel", "getRegistrationToken", "selectAmi",
                      "launchInstance", "waitForInstance", "waitForRunner">>
          starts == SelectSeq(h, LAMBDA e : e[1] = "start")
      IN /\ Len(starts) <= Len(order)
         /\ \A i \in 1..Len(starts) : starts[i][2] = order[i]
         /\ \A i \in 1..Len(h) :
              /\ (h[i][1] = "start" /\ h[i][2] # order[1]) =>
                   /\ i > 1 /\ h[i - 1][1] = "ok"
                   /\ \E k \in 2..Len(order) :
                        order[k] = h[i][2] /\ order[k - 1] = h[i - 1][2]
              /\ h[i][1] = "fail" =>
                   /\ i = Len(h) /\ pc[id] = "rejected"
                   /\ h[i - 1] = <<"start", h[i][2]>>
         /\ pc[id] = "rejected" => h[Len(h)][1] = "fail"
         /\ (\E e \in Range(h) :
               e[1] = "fail" /\ e[2] \in {"getRegistrationToken", "selectAmi"})
              => <<"start", "launchInstance">> \notin Range(h)

C16_Witness ==
  /\ inputAction = "launch" /\ mainPc = "done"
  /\ \E id \in Failed, other \in Succeeded :
       /\ history[id][Len(history[id])] = <<"fail", "selectAmi">>
       /\ Len(history[id]) = 6
       /\ history[other][Len(history[other])] = <<"ok", "waitForRunner">>
       /\ Len(history[other]) = 12

\* C17: a terminate unit makes the destroy call before any call to the runner
\* registry; when the destroy call fails the unit fails at once, and neither
\* the runner lookup nor the runner delete is attempted for it.
C17_DestroyBeforeRemoval ==
  inputAction = "terminate" =>
    \A id \in Range(ctxs) :
      LET h == history[id]
      IN /\ h # <<>> => h[1] = <<"start", "terminateInstance">>
         /\ \A i \in 1..Len(h) :
              h[i][2] \in {"removeRunner", "deleteRunner"} =>
                \E j \in 1..(i - 1) : h[j] = <<"ok", "terminateInstance">>
         /\ <<"fail", "terminateInstance">> \in Range(h) =>
              /\ pc[id] = "rejected"
              /\ h = << <<"start", "terminateInstance">>, <<"fail", "terminateInstance">> >>

C17_Witness ==
  /\ inputAction = "terminate" /\ mainPc = "done"
  /\ \E id \in Failed, other \in Succeeded :
       /\ <<"fail", "terminateInstance">> \in Events(id)
       /\ <<"ok", "deleteRunner">> \in Events(other)

\* C18: the labels generated in one launch batch are pairwise distinct for
\* distinct unit identities, also when two units draw the same timestamp and
\* random part.
C18_LabelsDistinct ==
  (inputAction = "launch" /\ mainPc # "start") =>
    \A a \in Range(ctxs), b \in Range(ctxs) : a # b => label[a] # label[b]

C18_Witness ==
  /\ inputAction = "launch" /\ ctxs = <<"a", "a-s1">>
  /\ label["a"] = "a-s1" /\ label["a-s1"] = "a-s1-s1"

\* C19: every unit whose pipeline failed has, once the batch is collected, an
\* error-level log entry with its identity as prefix and its error as message,
\* and is no key of the result map; the batch is reported failed.
C19_FailedUnitLoggedAndExcluded ==
  (mainPc = "done" /\ ctxs # <<>>) =>
    \A id \in Failed :
      /\ \E e \in errorLog : e[1] = id /\ e[2] = reason[id]
      /\ \A map \in MatrixValues : id \notin DOMAIN map
      /\ failedMsgs # <<>>

C19_Witness ==
  /\ mainPc = "done" /\ inputAction = "launch" /\ ctxs = <<"a", "b">>
  /\ pc["a"] = "rejected" /\ reason["a"] = "FAILURE" /\ pc["b"] = "fulfilled"
  /\ <<"a", "FAILURE">> \in errorLog
  /\ \A map \in MatrixValues : DOMAIN map = {"b"}
  /\ failedMsgs = <<"One or more runners failed to launch">>

\* The setOutput calls so far with the given name.
OutputsNamed(name) == SelectSeq(outputs, LAMBDA o : o[1] = name)

\* C20: the outputs "instance-id" and "label" are set exactly when the launch
\* was not declared as a matrix and its single unit succeeded, once each and
\* equal to that unit's entry of the result map; never for a declared matrix,
\* of one unit or more, nor for a failed unit.
C20_ConvenienceOutputs ==
  LET set == Len(OutputsNamed("instance-id")) > 0 \/ Len(OutputsNamed("label")) > 0
  IN /\ set <=> (LaunchCollected /\ ~isMatrix /\ Succeeded = {NoId})
     /\ set =>
          /\ Len(OutputsNamed("instance-id")) = 1 /\ Len(OutputsNamed("label")) = 1
          /\ \A map \in MatrixValues :
               /\ OutputsNamed("instance-id")[1][2] = map[NoId].instanceId
               /\ OutputsNamed("label")[1][2] = map[NoId].label

C20_Witness ==
  /\ LaunchCollected /\ ~isMatrix /\ Succeeded = {NoId}
  /\ Len(outputs) = 3
  /\ outputs[1] = <<"instance-id", InstanceOf(NoId)>>
  /\ outputs[2][1] = "label" /\ outputs[2][2] \in Suffixes

\* C21: a launch configuration in which some unit has none of the three image
\* criteria is rejected before any task is created: no unit makes a registry
\* call, lists images or requests an instance, nothing is output, and the
\* invocation is reported failed.
C21_NoCriteriaRejectedFirst ==
  (/\ inputAction = "launch" /\ mainPc # "start"
   /\ \E id \in Range(Units(rawMatrix)) : ~amiCriteria[id]) =>
    /\ mainPc = "done" /\ ctxs = <<>>
    /\ \A id \in AllIds : history[id] = <<>> /\ pc[id] = "none"
    /\ outputs = <<>>
    /\ Len(failedMsgs) = 1

C21_Witness ==
  /\ inputAction = "launch" /\ mainPc = "done"
  /\ rawMatrix = <<"a", "b">> /\ amiCriteria["a"] /\ ~amiCriteria["b"]
  /\ Len(failedMsgs) = 1 /\ \E e \in errorLog : e[1] = "b"

\* The answers so far that were RETRY.
Retries == {k \in 1..Len(waitResults) : waitResults[k] = "RETRY"}

\* C22: waitForInstance returns only after an answer of SUCCESS, and the task
\* goes on to waitForRunner only then; every RETRY is followed by one more call
\* of the waiter and fails nothing, however many there are; any other state or
\* a thrown error makes it throw, and the task is then rejected and stays so.
C22_AwaitRunning ==
  /\ [](/\ instPc = "returned" <=>
           (waitResults # <<>> /\ waitResults[Len(waitResults)] = "SUCCESS")
        /\ instTaskPc = "waitForRunner" <=> instPc = "returned"
        /\ waitCalls = Cardinality(Retries) + 1
        /\ \A k \in Retries : k < Len(waitResults) \/ instPc = "waiting"
        /\ \A k \in 1..Len(waitResults) : k < Len(waitResults) => k \in Retries
        /\ instPc = "threw" <=>
             (waitResults # <<>> /\
              waitResults[Len(waitResults)] \notin {"SUCCESS", "RETRY"})
        /\ instPc = "threw" <=> instTaskPc = "rejected")
  /\ [][instTaskPc = "rejected" => instTaskPc' = "rejected"]_vars

C22_Witness ==
  /\ Len(waitResults) = MaxWaitCalls
  /\ waitResults[Len(waitResults)] = "SUCCESS"
  /\ instTaskPc = "waitForRunner"

\* C23: the attempts of one wrapped call run one after another: at most one
\* is in flight at any time, and an attempt is started only when every earlier
\* one has come back with a retryable error.
C23_OneAttemptAtATime ==
  /\ Cardinality(InFlight) <= 1
  /\ \A n \in 1..Len(attempts) : \A m \in 1..(n - 1) :
       attempts[n] = "inflight" => attempts[m] = "retryable"

\* C24: getRunner terminates whenever every list call returns: removeRunner
\* gets past the listing, also when total_count changes between pages or the
\* runners read so far outnumber it.
C24_FindWorkerTerminates == <>(removePc # "listing")

\* The runners read so far that have the label getRunner was called with.
Labelled == {k \in 1..Len(fetched) : TargetLabel \in fetched[k].labels}

\* getRunner has returned, to removeRunner.
LookupReturned == removePc = "deleting" \/ deletes # <<>> \/ removeTaskPc = "fulfilled"

\* C25: the runner getRunner returns is one of the runners read and has the
\* label; it returns undefined only when no runner of any page read has the
\* label; a list call that throws makes it throw, which rejects the task
\* where undefined would have fulfilled it.
C25_FindWorkerByLabel ==
  /\ foundRunner # NoRunner =>
       /\ LookupReturned
       /\ TargetLabel \in foundRunner.labels
       /\ \E k \in 1..Len(fetched) : fetched[k] = foundRunner
  /\ (LookupReturned /\ foundRunner = NoRunner) => Labelled = {}
  /\ LookupReturned => Len(fetched) = reported
  /\ (removePc = "threw" /\ deletes = <<>>) =>
       foundRunner = NoRunner /\ removeTaskPc = "rejected"

C25_Witness ==
  /\ removePc = "deleting"
  /\ page = 2
  /\ Labelled = {3}
  /\ foundRunner = fetched[3]

\* C26: removeRunner with a runner found sends exactly one delete, to the id
\* of the runner found, which has the label; no delete goes to a runner read
\* that lacks the label, and none is sent with no runner found; a lookup or a
\* delete that throws rejects the task, and the task is fulfilled only when
\* removeRunner returned.
C26_OneDeleteOfFoundRunner ==
  /\ Len(deletes) <= 1
  /\ foundRunner # NoRunner <=> Len(deletes) = 1
  /\ \A d \in Range(deletes) :
       /\ d = foundRunner.id
       /\ \E k \in Labelled : fetched[k].id = d
       /\ \A k \in 1..Len(fetched) : fetched[k].id = d => k \in Labelled
  /\ removePc = "threw" <=> removeTaskPc = "rejected"
  /\ removeTaskPc = "fulfilled" <=> removePc = "returned"

C26_Witness ==
  /\ removePc = "returned"
  /\ deletes = <<2>>
  /\ fetched # <<>> /\ TargetLabel \notin fetched[1].labels

\* The same images in every order the pages may bring them.
Orders(list) ==
  {[k \in 1..Len(list) |-> list[f[k]]] :
     f \in {g \in [1..Len(list) -> 1..Len(list)] :
              \A j, k \in 1..Len(list) : g[j] = g[k] => j = k}}

\* C27: selectAmi is deterministic over a fixed set of images: in whatever
\* order the pages return the images listed, the image selected is the same.
C27_SameImageInAnyOrder ==
  amiPc = "selected" =>
    \A other \in Orders(images) : Sort(Filter(other))[1] = selected

\* The places of ctxs whose task was fulfilled.
FulfilledPlaces == {i \in 1..Len(ctxs) : pc[ctxs[i]] = "fulfilled"}

\* C28: the identifiers of the units are pairwise distinct, whether they come
\* from a matrix (an identifier named twice is one unit) or from no matrix
\* (the one unit ""), and they are the identifiers named; so the map emitted
\* has one entry for each fulfilled task, none written over another.
C28_UnitIdsDistinct ==
  /\ \A i, j \in 1..Len(ctxs) : ctxs[i] = ctxs[j] => i = j
  /\ mainPc \in {"awaiting", "done"} /\ ~(mainPc = "done" /\ ctxs = <<>>) =>
       Range(ctxs) = (IF rawMatrix = <<>> THEN {NoId} ELSE Range(rawMatrix))
  /\ \A map \in MatrixValues :
       Cardinality(DOMAIN map) = Cardinality(FulfilledPlaces)

C28_Witness ==
  /\ rawMatrix = <<"a", "a">>
  /\ ctxs = <<"a">>
  /\ \E map \in MatrixValues : DOMAIN map = {"a"}

\* How often the unit's task called generateLabel.
LabelsGenerated(id) ==
  Cardinality({k \in 1..Len(history[id]) : history[id][k] = <<"start", "generateLabel">>})

\* C29: the map entry of a succeeded launch unit holds the instance its own
\* launchInstance call returned and a label that is the one launchInstance put
\* in the boot script and the one waitForRunner waited for; every launch task
\* generates its label once and passes no other label on, and no other unit's
\* entry holds that label or that instance.
C29_EntryIsOwnInstanceAndLabel ==
  inputAction = "launch" =>
    /\ \A id \in Range(ctxs) :
         /\ LabelsGenerated(id) = 1
         /\ \A k \in 1..Len(labelArgs[id]) : labelArgs[id][k][2] = label[id]
    /\ \A map \in MatrixValues : \A id \in DOMAIN map :
         /\ map[id].instanceId = InstanceOf(id)
         /\ labelArgs[id] = << <<"launchInstance", map[id].label>>,
                               <<"waitForRunner", map[id].label>> >>
         /\ \A other \in DOMAIN map \ {id} :
              /\ map[other].label # map[id].label
              /\ map[other].instanceId # map[id].instanceId

C29_Witness ==
  /\ inputAction = "launch"
  /\ \E map \in MatrixValues :
       /\ DOMAIN map = {"a", "a-s1"}
       /\ map["a"] = [instanceId |-> InstanceOf("a"), label |-> "a-s1"]
       /\ map["a-s1"] = [instanceId |-> InstanceOf("a-s1"), label |-> "a-s1-s1"]

\* The launch units that failed after their launchInstance call returned an
\* instance: at waitForInstance or at waitForRunner.
FailedAfterLaunch ==
  {id \in Failed : inputAction = "launch" /\ <<"ok", "launchInstance">> \in Range(history[id])}

\* The output carries the instance: as "instance-id", or in an entry of "matrix".
Reports(out, instance) ==
  \/ out[1] = "instance-id" /\ out[2] = instance
  \/ out[1] = "matrix" /\ \E id \in DOMAIN out[2] : out[2][id].instanceId = instance

\* C30: a launch unit that fails after its instance was created stops at the
\* failure: no task of the invocation starts terminateInstance, and no output
\* of the batch, before or after the collection, carries the instance.
C30_FailedLaunchLeavesInstance ==
  \A id \in FailedAfterLaunch :
    /\ history[id][Len(history[id])] \in
         {<<"fail", "waitForInstance">>, <<"fail", "waitForRunner">>}
    /\ \A other \in AllIds : \A k \in 1..Len(history[other]) :
         history[other][k][2] # "terminateInstance"
    /\ \A k \in 1..Len(outputs) : ~Reports(outputs[k], InstanceOf(id))

C30_Witness ==
  /\ mainPc = "done"
  /\ FailedAfterLaunch = {"a"} /\ Succeeded = {"b"}
  /\ reason["a"] = "Timed out waiting for runner to be online"
  /\ \E map \in MatrixValues : DOMAIN map = {"b"}

\* waitForRunner's promise settled with a runner or with the timeout error.
SettledBySuccessOrTimeout ==
  onlinePromise = "resolved" \/ (onlinePromise = "rejected" /\ waitError = "timeout")

\* C31: with the timers firing and every getRunner call answered, awaitOnline
\* settles: it resolves, or rejects with the timeout or with the poll's error;
\* once it settled with success or timeout, the poll timer is cleared and no
\* further getRunner call is started.
C31_AwaitOnlineSettles ==
  /\ <>(onlinePromise \in {"resolved", "rejected"})
  /\ [](/\ onlinePromise = "rejected" => waitError \in {"timeout", "poll error"}
        /\ onlinePromise = "resolved" => waitError = "none"
        /\ SettledBySuccessOrTimeout => ~pollTimer)
  /\ [][SettledBySuccessOrTimeout =>
          (polls' = polls /\ ~pollTimer' /\ onlinePromise' = onlinePromise)]_vars

C31_Witness ==
  /\ onlinePromise = "resolved"
  /\ ~pollTimer
  /\ polls = 2 /\ pollsInFlight = 1
  /\ runner.status = "online"
====
